---- MODULE Spec2Model ----
(***************************************************************************)
(* ChainTransform (vispy/visuals/transforms/chain.py): an ordered list of  *)
(* child transforms, two shader FunctionChains derived from it, and the    *)
(* forwarding of the children's "changed" notifications.                   *)
(*                                                                         *)
(* Objects are referred to by name.  Leaves are transforms of other        *)
(* classes (two affine ones with a scale and a translation, one nonlinear  *)
(* one without parameters); chains are ChainTransform instances.  Python   *)
(* lists are objects of their own: a chain holds a reference to its list,  *)
(* and two chains can hold the same list.                                  *)
(*                                                                         *)
(* write_mesh (vispy/util/dataio/io.py) is modelled at the end of the      *)
(* operations, on a file system of two file names.                         *)
(***************************************************************************)
EXTENDS Integers, Sequences, FiniteSets, TLC

VARIABLES
    lists,          \* list object -> its elements (a sequence of objects)
    _transforms,    \* chain -> the list object chain._transforms refers to
    _shader_map,    \* chain -> chain._shader_map.functions
    _shader_imap,   \* chain -> chain._shader_imap.functions
    connected,      \* object t -> chains whose _subtr_changed is connected to t.changed
    param,          \* affine leaf -> <<scale, translate>>
    fired,          \* object -> times its changed emitter fired in the last call
    op,             \* the last call: its name, receiver and outcome
    ret,            \* what the last call returned
    calls,          \* number of calls made since construction
    combine,        \* class of t1, class of t2 -> class of t1 * t2, for the
                    \* leaf classes whose product is left open
    fs              \* file name -> the file's content, or NoFile

vars == <<lists, _transforms, _shader_map, _shader_imap, connected, param,
          fired, op, ret, calls, combine, fs>>

heap == <<lists, _transforms, _shader_map, _shader_imap, connected, param>>

-----------------------------------------------------------------------------
(* Bounds of the model *)

\* longest child list a mutation may build
MaxLen == 2

\* longest list a caller builds for the transforms setter
MaxNew == 2

\* longest list of children given to a constructor
MaxArgs == 2

\* longest sequence of calls explored after construction
MaxCalls == 3

\* depth at which the recursive delivery of notifications is cut off
\* (the interpreter's recursion limit, scaled down)
RecursionLimit == 4

\* passes of the loop of simplified() after which it is taken never to stop
PassLimit == 8

\* longest chain of leaves of the classes X and Y that is simplified
MaxFlat == 4

-----------------------------------------------------------------------------
(* Objects *)

AffineLeaves == {"A", "B"}
Leaves == AffineLeaves \cup {"P"}
Chains == {"c1", "c2", "c3"}
Obj == Leaves \cup Chains
ListIds == {"l1", "l2", "l3"}

\* leaves of two further classes, X and Y, one instance of each, named after
\* its class; what the product of two such transforms is, is given by combine
KindLeaves == {"X", "Y"}

\* the class of a product: one of the leaf classes (the pair merged into one
\* transform of that class) or ChainTransform (the pair did not merge)
CombineResults == KindLeaves \cup {"ChainTransform"}
CombineTables == [KindLeaves \X KindLeaves -> CombineResults]
NoCombine == [k \in KindLeaves \X KindLeaves |-> "ChainTransform"]

\* the transforms callers construct chains from and pass to the mutations
Args == {"A", "P", "c1", "c2"}

\* the chains the calls are made on
Receivers == Args \cap Chains

\* the list ChainTransform.__init__ creates for each chain
ListOf == [c \in Chains |-> CASE c = "c1" -> "l1" [] c = "c2" -> "l2" [] OTHER -> "l3"]

\* the coordinates that are mapped, as one array indexed by coordinate
Coords == (-1)..2
CoordArray == [x \in Coords |-> x]

ParamVals == {<<1, 0>>, <<2, 1>>, <<0, 1>>}
DefaultParam == <<1, 0>>

\* the files write_mesh is called on, what a file can hold before the call,
\* and the meshes written
Fnames == {"f1", "f2"}
NoFile == [format |-> "none", data |-> "no file"]
Meshes == {"mesh1", "mesh2"}
Formats == {"obj", "ply"}
Written(mesh) == [format |-> "obj", data |-> mesh]
FileContents == {NoFile, [format |-> "other", data |-> "other data"]}
                \cup {Written(m) : m \in Meshes}
NoFiles == [f \in Fnames |-> NoFile]

Reverse(s) == [i \in 1..Len(s) |-> s[Len(s) + 1 - i]]

Range(s) == {s[i] : i \in 1..Len(s)}

SeqsUpTo(S, n) == UNION {[1..k -> S] : k \in 0..n}

NoFire == [o \in Obj |-> 0]

NoRet == [type |-> "None"]

\* chain.transforms: the list object's current elements
transforms(c) == lists[_transforms[c]]

-----------------------------------------------------------------------------
(* The change emitter of a transform: connect, disconnect, emit *)

connect(conn, t, c) == [conn EXCEPT ![t] = @ \cup {c}]

disconnect(conn, t, c) == [conn EXCEPT ![t] = @ \ {c}]

RECURSIVE connect_all(_, _, _)
connect_all(conn, trs, c) ==
    IF trs = <<>> THEN conn
    ELSE connect_all(connect(conn, Head(trs), c), Tail(trs), c)

RECURSIVE disconnect_all(_, _, _)
disconnect_all(conn, trs, c) ==
    IF trs = <<>> THEN conn
    ELSE disconnect_all(disconnect(conn, Head(trs), c), Tail(trs), c)

\* o.changed fires: every connected chain's _subtr_changed runs, which calls
\* that chain's update(), which fires that chain's changed, and so on.  The
\* result is the number of firings per object and whether the recursion
\* overran the limit (the exception then unwinds the whole delivery).
RECURSIVE emit(_, _, _, _)
RECURSIVE emit_callbacks(_, _, _, _)
RECURSIVE _subtr_changed(_, _, _, _)
emit(conn, o, depth, acc) ==
    IF depth > RecursionLimit THEN [n |-> acc.n, err |-> TRUE]
    ELSE emit_callbacks(conn, conn[o], depth,
                        [n |-> [acc.n EXCEPT ![o] = @ + 1], err |-> FALSE])

emit_callbacks(conn, cbs, depth, acc) ==
    IF cbs = {} \/ acc.err THEN acc
    ELSE LET c == CHOOSE c \in cbs : TRUE
         IN  emit_callbacks(conn, cbs \ {c}, depth,
                            _subtr_changed(conn, c, depth, acc))

\* ChainTransform._subtr_changed: self.update()
_subtr_changed(conn, c, depth, acc) == emit(conn, c, depth + 1, acc)

\* BaseTransform.update() called from outside any delivery
update(conn, o) == emit(conn, o, 1, [n |-> NoFire, err |-> FALSE])

-----------------------------------------------------------------------------
(* Shader chains *)

ShaderMapOf(t) == <<"shader_map", t>>
ShaderImapOf(t) == <<"shader_imap", t>>

\* ChainTransform._rebuild_shaders, first line
rebuild_shader_map(trs) ==
    [i \in 1..Len(trs) |-> ShaderMapOf(Reverse(trs)[i])]

\* ChainTransform._rebuild_shaders, second line
rebuild_shader_imap(trs) ==
    [i \in 1..Len(trs) |-> ShaderImapOf(trs[i])]

-----------------------------------------------------------------------------
(* Construction *)

\* one positional argument of ChainTransform(...): a transform or a list
CtorArg(S) == {<<"tr", <<t>>>> : t \in S}
              \cup {<<"list", s>> : s \in SeqsUpTo(S, 2)}

CtorArgs(S) == SeqsUpTo(CtorArg(S), 2)

\* ChainTransform.__init__: lists and tuples are extended, the rest appended
RECURSIVE init_trs(_)
init_trs(args) ==
    IF args = <<>> THEN <<>>
    ELSE LET tr == Head(args)
         IN  IF tr[1] = "list" THEN tr[2] \o init_trs(Tail(args))
             ELSE <<tr[2][1]>> \o init_trs(Tail(args))

\* The state after ChainTransform.__init__ has run for each chain with the
\* children trs[c]: a list of its own, both shader chains rebuilt, nothing
\* connected.
Constructed(trs, p, n) ==
    /\ lists = [l \in ListIds |-> trs[CHOOSE c \in Chains : ListOf[c] = l]]
    /\ _transforms = ListOf
    /\ _shader_map = [c \in Chains |-> rebuild_shader_map(trs[c])]
    /\ _shader_imap = [c \in Chains |-> rebuild_shader_imap(trs[c])]
    /\ connected = [o \in Obj |-> {}]
    /\ param = p
    /\ fired = NoFire
    /\ op = [name |-> "__init__", self |-> "c1", arg |-> <<>>, out |-> "ok"]
    /\ ret = NoRet
    /\ calls = n

\* c1 = ChainTransform(*a1); c2 = ChainTransform(*a2); c3 = ChainTransform()
Init ==
    \E a1 \in CtorArgs(Args \ Chains), a2 \in CtorArgs(Args \ {"c2"}) :
        /\ Len(init_trs(a1)) < MaxLen
        /\ Len(init_trs(a2)) < MaxLen
        /\ Constructed([c \in Chains |-> CASE c = "c1" -> init_trs(a1)
                                           [] c = "c2" -> init_trs(a2)
                                           [] OTHER -> <<>>],
                       [l \in AffineLeaves |-> DefaultParam], 0)
        /\ combine = NoCombine
        /\ fs = NoFiles

-----------------------------------------------------------------------------
(* Mutations *)

\* a call that never returns leaves the program stuck
Running == op.out # "hang" /\ calls < MaxCalls

Outcome(ev) == IF ev.err THEN "RecursionError" ELSE "ok"

\* ChainTransform.append
append(c, tr) ==
    /\ Running
    /\ Len(transforms(c)) < MaxLen
    /\ LET l == _transforms[c]
           lists1 == [lists EXCEPT ![l] = Append(@, tr)]
           conn1 == connect(connected, tr, c)
           ev == update(conn1, c)
       IN  /\ lists' = lists1
           /\ connected' = conn1
           /\ _shader_map' = [_shader_map EXCEPT ![c] = rebuild_shader_map(lists1[l])]
           /\ _shader_imap' = [_shader_imap EXCEPT ![c] = rebuild_shader_imap(lists1[l])]
           /\ fired' = ev.n
           /\ op' = [name |-> "append", self |-> c, arg |-> tr, out |-> Outcome(ev)]
    /\ ret' = NoRet
    /\ calls' = calls + 1
    /\ UNCHANGED <<combine, fs>>
    /\ UNCHANGED <<_transforms, param>>

\* ChainTransform.prepend
prepend(c, tr) ==
    /\ Running
    /\ Len(transforms(c)) < MaxLen
    /\ LET l == _transforms[c]
           lists1 == [lists EXCEPT ![l] = <<tr>> \o @]
           conn1 == connect(connected, tr, c)
           ev == update(conn1, c)
       IN  /\ lists' = lists1
           /\ connected' = conn1
           /\ _shader_map' = [_shader_map EXCEPT ![c] = rebuild_shader_map(lists1[l])]
           /\ _shader_imap' = [_shader_imap EXCEPT ![c] = rebuild_shader_imap(lists1[l])]
           /\ fired' = ev.n
           /\ op' = [name |-> "prepend", self |-> c, arg |-> tr, out |-> Outcome(ev)]
    /\ ret' = NoRet
    /\ calls' = calls + 1
    /\ UNCHANGED <<combine, fs>>
    /\ UNCHANGED <<_transforms, param>>

\* The list object a caller hands to the transforms setter: the list some
\* chain's transforms property returned (alias |-> that list), or a list the
\* caller built (alias |-> "new").  A new list takes a list name no other
\* chain refers to.
ListArgs == [alias : ListIds, elems : {<<>>}]
            \cup [alias : {"new"}, elems : SeqsUpTo(Args, MaxNew)]

\* an argument of the setter that is not a list (a transform, a tuple, None)
NotAList == [alias |-> "not a list", elems |-> <<>>]

\* a list no chain refers to any more is garbage
collect(ls, tl) ==
    [l \in ListIds |-> IF \E d \in Chains : tl[d] = l THEN ls[l] ELSE <<>>]

NewListId(c) ==
    CHOOSE l \in ListIds : \A d \in Chains \ {c} : _transforms[d] # l

\* ChainTransform.transforms (setter) with a list
transforms_setter(c, tr) ==
    /\ Running
    /\ LET conn1 == disconnect_all(connected, transforms(c), c)
           l == IF tr.alias = "new" THEN NewListId(c) ELSE tr.alias
           lists1 == IF tr.alias = "new"
                     THEN [lists EXCEPT ![l] = tr.elems] ELSE lists
           _transforms1 == [_transforms EXCEPT ![c] = l]
           conn2 == connect_all(conn1, lists1[l], c)
           ev == update(conn2, c)
       IN  /\ lists' = collect(lists1, _transforms1)
           /\ _transforms' = _transforms1
           /\ connected' = conn2
           /\ _shader_map' = [_shader_map EXCEPT ![c] = rebuild_shader_map(lists1[l])]
           /\ _shader_imap' = [_shader_imap EXCEPT ![c] = rebuild_shader_imap(lists1[l])]
           /\ fired' = ev.n
           /\ op' = [name |-> "transforms_setter", self |-> c, arg |-> tr,
                     out |-> Outcome(ev)]
    /\ ret' = NoRet
    /\ calls' = calls + 1
    /\ UNCHANGED <<combine, fs>>
    /\ UNCHANGED param

\* the setter checking its argument after the loop that disconnects
transforms_setter_late_check(c) ==
    /\ Running
    /\ op' = [name |-> "transforms_setter", self |-> c, arg |-> NotAList,
              out |-> "TypeError"]
    /\ connected' = disconnect_all(connected, transforms(c), c)
    /\ fired' = NoFire
    /\ ret' = NoRet
    /\ calls' = calls + 1
    /\ UNCHANGED <<lists, _transforms, _shader_map, _shader_imap, param, combine, fs>>

\* ChainTransform.transforms (setter) with anything that is not a list
transforms_setter_not_list(c) ==
    /\ Running
    /\ op' = [name |-> "transforms_setter", self |-> c, arg |-> NotAList,
              out |-> "TypeError"]
    /\ fired' = NoFire
    /\ ret' = NoRet
    /\ calls' = calls + 1
    /\ UNCHANGED <<combine, fs>>
    /\ UNCHANGED heap

\* Python's list index: negative indices count from the end
InRange(index, n) == -n <= index /\ index < n
Position(index, n) == IF index < 0 THEN index + n + 1 ELSE index + 1

Indices == (-1)..MaxLen

\* ChainTransform.__setitem__: self.subtr_changed does not exist (the method
\* is _subtr_changed), so the third statement raises AttributeError and the
\* last two statements never run
__setitem__(c, index, tr) ==
    /\ Running
    /\ LET l == _transforms[c]
           n == Len(lists[l])
           i == Position(index, n)
       IN  IF ~InRange(index, n)
           THEN /\ op' = [name |-> "__setitem__", self |-> c,
                          arg |-> <<index, tr>>, out |-> "IndexError"]
                /\ UNCHANGED heap
           ELSE /\ connected' = disconnect(connected, lists[l][i], c)
                /\ lists' = [lists EXCEPT ![l][i] = tr]
                /\ op' = [name |-> "__setitem__", self |-> c,
                          arg |-> <<index, tr>>, out |-> "AttributeError"]
                /\ UNCHANGED <<_transforms, _shader_map, _shader_imap, param>>
    /\ fired' = NoFire
    /\ ret' = NoRet
    /\ calls' = calls + 1
    /\ UNCHANGED <<combine, fs>>

\* A leaf's own parameters are set: the leaf stores them and calls update()
set_param(t, v) ==
    /\ Running
    /\ v # param[t]
    /\ LET ev == update(connected, t)
       IN  /\ fired' = ev.n
           /\ op' = [name |-> "set_param", self |-> t, arg |-> v, out |-> Outcome(ev)]
    /\ param' = [param EXCEPT ![t] = v]
    /\ ret' = NoRet
    /\ calls' = calls + 1
    /\ UNCHANGED <<combine, fs>>
    /\ UNCHANGED <<lists, _transforms, _shader_map, _shader_imap, connected>>

-----------------------------------------------------------------------------
(* Leaf transforms: map, imap and the product of two leaves *)

\* A transform as simplified() handles it: a leaf of the program (src its
\* name) or the product of two transforms (src "new").
Item(t) ==
    IF t \in AffineLeaves
    THEN [src |-> t, cls |-> "affine", scale |-> param[t][1], translate |-> param[t][2]]
    ELSE IF t \in KindLeaves
    THEN [src |-> t, cls |-> t, scale |-> 0, translate |-> 0]
    ELSE [src |-> t, cls |-> "nonlinear", scale |-> 0, translate |-> 0]

NullTransform == [src |-> "new", cls |-> "null", scale |-> 1, translate |-> 0]

\* the nonlinear leaf swaps each even coordinate with its odd successor
item_map(it, x) ==
    IF it.cls = "nonlinear" THEN (IF x % 2 = 0 THEN x + 1 ELSE x - 1)
    ELSE it.scale * x + it.translate

\* the inverse of an affine leaf divides by its scale; a zero scale has no
\* inverse and the result is not a coordinate
NotACoord == -1000

item_imap(it, x) ==
    IF it.cls = "nonlinear" THEN (IF x % 2 = 0 THEN x + 1 ELSE x - 1)
    ELSE IF it.scale = 0 \/ x = NotACoord THEN NotACoord
    ELSE (x - it.translate) \div it.scale

\* t1 * t2 for two transforms that are not chains: two affine transforms
\* give one affine transform; two transforms of the classes X and Y give
\* what combine says; any other pair gives ChainTransform([t1, t2])
mul(t1, t2) ==
    IF t1.cls \in {"affine", "null"} /\ t2.cls \in {"affine", "null"}
    THEN [src |-> "new", cls |-> "affine",
          scale |-> t1.scale * t2.scale,
          translate |-> t1.scale * t2.translate + t1.translate]
    ELSE IF /\ t1.cls \in KindLeaves /\ t2.cls \in KindLeaves
            /\ combine[<<t1.cls, t2.cls>>] # "ChainTransform"
    THEN [src |-> "new", cls |-> combine[<<t1.cls, t2.cls>>],
          scale |-> 0, translate |-> 0]
    ELSE [src |-> "new", cls |-> "ChainTransform", transforms |-> <<t1, t2>>]

-----------------------------------------------------------------------------
(* The four flags *)

Flags == {"Linear", "Orthogonal", "NonScaling", "Isometric"}

\* the flags of a leaf: an affine leaf x |-> scale * x + translate is linear,
\* keeps axes orthogonal unless it collapses them, and keeps lengths when
\* its scale is 1; the other leaves have no flag set
leaf_flag(t, f) ==
    IF t \in AffineLeaves
    THEN CASE f = "Linear" -> TRUE
           [] f = "Orthogonal" -> param[t][1] # 0
           [] OTHER -> param[t][1] = 1
    ELSE FALSE

RECURSIVE flag(_, _)
RECURSIVE flag_loop(_, _, _)

\* the loop of a flag property assigning instead of and-ing
flag_loop_assign(trs, f, b) ==
    IF trs = <<>> THEN b
    ELSE flag_loop(Tail(trs), f, flag(Head(trs), f))

\* tr.Linear (tr.Orthogonal, ...) of a child: the property of a chain, the
\* attribute of a leaf
flag(t, f) ==
    IF t \in Chains THEN flag_loop(transforms(t), f, TRUE) ELSE leaf_flag(t, f)

\* ChainTransform.Linear, Orthogonal, NonScaling, Isometric:
\* for tr in self._transforms: b &= tr.<flag>
flag_loop(trs, f, b) ==
    IF trs = <<>> THEN b
    ELSE flag_loop(Tail(trs), f, b /\ flag(Head(trs), f))

-----------------------------------------------------------------------------
(* map and imap *)

RECURSIVE map(_, _)
RECURSIVE map_loop(_, _)
RECURSIVE imap(_, _)
RECURSIVE imap_loop(_, _)

\* map without reversed(): the first child is applied first
map_forward(t, coords) ==
    IF t \in Leaves THEN item_map(Item(t), coords)
    ELSE map_loop(transforms(t), coords)

\* imap over reversed(self.transforms): the same order as map
imap_reversed(t, coords) ==
    IF t \in Leaves THEN item_imap(Item(t), coords)
    ELSE imap_loop(Reverse(transforms(t)), coords)

\* ChainTransform.map: for tr in reversed(self.transforms)
map(t, coords) ==
    IF t \in Leaves THEN item_map(Item(t), coords)
    ELSE map_loop(Reverse(transforms(t)), coords)

map_loop(trs, coords) ==
    IF trs = <<>> THEN coords
    ELSE map_loop(Tail(trs), map(Head(trs), coords))

\* ChainTransform.imap: for tr in self.transforms
imap(t, coords) ==
    IF t \in Leaves THEN item_imap(Item(t), coords)
    ELSE imap_loop(transforms(t), coords)

imap_loop(trs, coords) ==
    IF trs = <<>> THEN coords
    ELSE imap_loop(Tail(trs), imap(Head(trs), coords))

-----------------------------------------------------------------------------
(* flat and simplified *)

\* the chains among a chain's children, and all chains nested below it
ChildChains(c) == Range(transforms(c)) \cap Chains

RECURSIVE Below(_, _)
Below(S, n) ==
    IF n = 0 THEN S
    ELSE Below(S \cup UNION {ChildChains(d) : d \in S}, n - 1)

Nested(c) == Below(ChildChains(c), Cardinality(Chains))

\* a chain nested in itself is expanded over and over: the loop of flat(),
\* like the recursion of map(), ends only when no chain at or below the
\* receiver contains itself
Acyclic(c) == \A d \in {c} \cup Nested(c) : d \notin Nested(d)

\* the leaves below a transform, depth first and left to right
RECURSIVE LeavesOf(_)
RECURSIVE LeavesOfAll(_)
LeavesOf(t) == IF t \in Chains THEN LeavesOfAll(transforms(t)) ELSE <<t>>

LeavesOfAll(trs) ==
    IF trs = <<>> THEN <<>> ELSE LeavesOf(Head(trs)) \o LeavesOfAll(Tail(trs))

\* a new ChainTransform, as returned to the caller
NewChain(trs) == [src |-> "new", cls |-> "ChainTransform", transforms |-> trs]

\* the loop of flat() putting a nested chain's children behind the rest
RECURSIVE flat_loop_behind(_, _, _)
flat_loop_behind(ls, ref, new_chain) ==
    IF Len(ls[ref]) = 0 THEN [lists |-> ls, new_chain |-> new_chain]
    ELSE LET tr == Head(ls[ref])
             ls1 == [ls EXCEPT ![ref] = Tail(@)]
         IN  IF tr \in Chains
             THEN flat_loop_behind(
                      [ls1 EXCEPT !["local"] = ls1[ref] \o ls1[_transforms[tr]]],
                      "local", new_chain)
             ELSE flat_loop_behind(ls1, ref, Append(new_chain, tr))

\* The while loop of ChainTransform.flat.  ls holds the list objects and,
\* under "local", the list of the local variable `transforms`; ref is the
\* list that variable refers to.
RECURSIVE flat_loop(_, _, _)
flat_loop(ls, ref, new_chain) ==
    IF Len(ls[ref]) = 0 THEN [lists |-> ls, new_chain |-> new_chain]
    ELSE LET tr == Head(ls[ref])
             ls1 == [ls EXCEPT ![ref] = Tail(@)]
         IN  IF tr \in Chains
             THEN flat_loop([ls1 EXCEPT !["local"] = ls1[_transforms[tr]] \o ls1[ref]],
                            "local", new_chain)
             ELSE flat_loop(ls1, ref, Append(new_chain, tr))

WithLocal(ls, elems) ==
    [l \in ListIds \cup {"local"} |-> IF l = "local" THEN elems ELSE ls[l]]

\* flat() working on self.transforms itself instead of a copy of it
flat_run_in_place(c) == flat_loop(WithLocal(lists, <<>>), _transforms[c], <<>>)

\* ChainTransform.flat up to its return: transforms = self.transforms[:]
flat_run(c) == flat_loop(WithLocal(lists, transforms(c)), "local", <<>>)

Items(trs) == [i \in 1..Len(trs) |-> Item(trs[i])]

\* the pass of simplified() multiplying each pair the other way round
RECURSIVE simplified_for_swapped(_, _, _)
simplified_for_swapped(rest, new_tr, cont) ==
    IF rest = <<>> THEN [new_tr |-> new_tr, cont |-> cont]
    ELSE LET t2 == Head(rest)
             t1 == new_tr[Len(new_tr)]
             pr == mul(t2, t1)
         IN  IF pr.cls # "ChainTransform"
             THEN simplified_for_swapped(Tail(rest),
                      Append(SubSeq(new_tr, 1, Len(new_tr) - 1), pr), TRUE)
             ELSE simplified_for_swapped(Tail(rest), Append(new_tr, t2), cont)

\* the pass of simplified() keeping t1 when it has merged it with t2
RECURSIVE simplified_for_no_pop(_, _, _)
simplified_for_no_pop(rest, new_tr, cont) ==
    IF rest = <<>> THEN [new_tr |-> new_tr, cont |-> cont]
    ELSE LET t2 == Head(rest)
             t1 == new_tr[Len(new_tr)]
             pr == mul(t1, t2)
         IN  IF pr.cls # "ChainTransform"
             THEN simplified_for_no_pop(Tail(rest), Append(new_tr, pr), TRUE)
             ELSE simplified_for_no_pop(Tail(rest), Append(new_tr, t2), cont)

\* The for loop of ChainTransform.simplified: one pass over tr[1:]
RECURSIVE simplified_for(_, _, _)
simplified_for(rest, new_tr, cont) ==
    IF rest = <<>> THEN [new_tr |-> new_tr, cont |-> cont]
    ELSE LET t2 == Head(rest)
             t1 == new_tr[Len(new_tr)]
             pr == mul(t1, t2)
         IN  IF pr.cls # "ChainTransform"
             THEN simplified_for(Tail(rest),
                                 Append(SubSeq(new_tr, 1, Len(new_tr) - 1), pr), TRUE)
             ELSE simplified_for(Tail(rest), Append(new_tr, t2), cont)

\* the while loop of simplified() leaving after its first pass
simplified_while_once(tr, passes) ==
    LET pass == simplified_for(Tail(tr), <<tr[1]>>, FALSE)
    IN  [tr |-> pass.new_tr, passes |-> passes + 1, stopped |-> TRUE]

\* The while loop of ChainTransform.simplified, after `passes` passes.  A
\* loop still running after PassLimit passes is taken never to stop.
RECURSIVE simplified_while(_, _)
simplified_while(tr, passes) ==
    IF passes >= PassLimit THEN [tr |-> tr, passes |-> passes, stopped |-> FALSE]
    ELSE LET pass == simplified_for(Tail(tr), <<tr[1]>>, FALSE)
         IN  IF pass.cont THEN simplified_while(pass.new_tr, passes + 1)
             ELSE [tr |-> pass.new_tr, passes |-> passes + 1, stopped |-> TRUE]

\* simplified() wrapping whatever is left in a ChainTransform
simplified_of_wrapped(flat_transforms) ==
    IF Len(flat_transforms) = 0
    THEN [ret |-> NullTransform, passes |-> 0, stopped |-> TRUE]
    ELSE LET w == simplified_while(Items(flat_transforms), 0)
         IN  [ret |-> NewChain(w.tr), passes |-> w.passes, stopped |-> w.stopped]

\* ChainTransform.simplified after tr = self.flat(): what it returns, the
\* passes its loop made and whether the loop stopped
simplified_of(flat_transforms) ==
    IF Len(flat_transforms) = 0
    THEN [ret |-> NullTransform, passes |-> 0, stopped |-> TRUE]
    ELSE LET w == simplified_while(Items(flat_transforms), 0)
         IN  [ret |-> IF Len(w.tr) = 1 THEN w.tr[1] ELSE NewChain(w.tr),
              passes |-> w.passes, stopped |-> w.stopped]

\* ChainTransform.flat
flat(c) ==
    /\ Running
    /\ IF Acyclic(c)
       THEN LET r == flat_run(c)
            IN  /\ lists' = [l \in ListIds |-> r.lists[l]]
                /\ ret' = NewChain(r.new_chain)
                /\ op' = [name |-> "flat", self |-> c, arg |-> <<>>, out |-> "ok"]
       ELSE /\ lists' = lists
            /\ ret' = NoRet
            /\ op' = [name |-> "flat", self |-> c, arg |-> <<>>, out |-> "hang"]
    /\ fired' = NoFire
    /\ calls' = calls + 1
    /\ UNCHANGED <<combine, fs>>
    /\ UNCHANGED <<_transforms, _shader_map, _shader_imap, connected, param>>

\* ChainTransform.simplified
simplified(c) ==
    /\ Running
    /\ IF Acyclic(c)
       THEN LET r == flat_run(c)
                s == simplified_of(r.new_chain)
            IN  /\ lists' = [l \in ListIds |-> r.lists[l]]
                /\ ret' = IF s.stopped THEN s.ret ELSE NoRet
                /\ op' = [name |-> "simplified", self |-> c, arg |-> <<>>,
                          out |-> IF s.stopped THEN "ok" ELSE "hang",
                          passes |-> s.passes]
       ELSE /\ lists' = lists
            /\ ret' = NoRet
            /\ op' = [name |-> "simplified", self |-> c, arg |-> <<>>,
                      out |-> "hang", passes |-> 0]
    /\ fired' = NoFire
    /\ calls' = calls + 1
    /\ UNCHANGED <<combine, fs>>
    /\ UNCHANGED <<_transforms, _shader_map, _shader_imap, connected, param>>

\* map(coords) on an array of coordinates
map_call(c, coords) ==
    /\ Running
    /\ Acyclic(c)
    /\ ret' = [type |-> "coords", val |-> [i \in DOMAIN coords |-> map(c, coords[i])]]
    /\ op' = [name |-> "map", self |-> c, arg |-> coords, out |-> "ok"]
    /\ fired' = NoFire
    /\ calls' = calls + 1
    /\ UNCHANGED <<combine, fs>>
    /\ UNCHANGED heap

\* imap(coords) on an array of coordinates
imap_call(c, coords) ==
    /\ Running
    /\ Acyclic(c)
    /\ ret' = [type |-> "coords", val |-> [i \in DOMAIN coords |-> imap(c, coords[i])]]
    /\ op' = [name |-> "imap", self |-> c, arg |-> coords, out |-> "ok"]
    /\ fired' = NoFire
    /\ calls' = calls + 1
    /\ UNCHANGED <<combine, fs>>
    /\ UNCHANGED heap

\* self * tr changing self's list in place (self.transforms += trs)
chain_mul_in_place(ls, c, tr) ==
    LET trs == IF tr \in Chains THEN ls[_transforms[tr]] ELSE <<tr>>
        l == _transforms[c]
        ls1 == [ls EXCEPT ![l] = @ \o trs]
    IN  [lists |-> ls1, ret |-> NewChain(ls1[l])]

\* ChainTransform.__mul__ on the list objects ls: what becomes of the lists
\* and what is returned.  self.transforms + trs is a new list.
chain_mul(ls, c, tr) ==
    LET trs == IF tr \in Chains THEN ls[_transforms[tr]] ELSE <<tr>>
    IN  [lists |-> ls, ret |-> NewChain(ls[_transforms[c]] \o trs)]

\* ChainTransform.__rmul__ on the list objects ls
chain_rmul(ls, c, tr) ==
    LET trs == IF tr \in Chains THEN ls[_transforms[tr]] ELSE <<tr>>
    IN  [lists |-> ls, ret |-> NewChain(trs \o ls[_transforms[c]])]

\* self * tr
__mul__(c, tr) ==
    /\ Running
    /\ LET r == chain_mul(lists, c, tr)
       IN  /\ lists' = r.lists
           /\ ret' = r.ret
    /\ op' = [name |-> "__mul__", self |-> c, arg |-> tr, out |-> "ok"]
    /\ fired' = NoFire
    /\ calls' = calls + 1
    /\ UNCHANGED <<_transforms, _shader_map, _shader_imap, connected, param,
                   combine, fs>>

\* tr * self
__rmul__(c, tr) ==
    /\ Running
    /\ LET r == chain_rmul(lists, c, tr)
       IN  /\ lists' = r.lists
           /\ ret' = r.ret
    /\ op' = [name |-> "__rmul__", self |-> c, arg |-> tr, out |-> "ok"]
    /\ fired' = NoFire
    /\ calls' = calls + 1
    /\ UNCHANGED <<_transforms, _shader_map, _shader_imap, connected, param,
                   combine, fs>>

\* reading chain.Linear, chain.Orthogonal, chain.NonScaling or
\* chain.Isometric
read_flag(c, f) ==
    /\ Running
    /\ Acyclic(c)
    /\ ret' = [type |-> "bool", val |-> flag_loop(transforms(c), f, TRUE)]
    /\ op' = [name |-> "read_flag", self |-> c, arg |-> f, out |-> "ok"]
    /\ fired' = NoFire
    /\ calls' = calls + 1
    /\ UNCHANGED <<heap, combine, fs>>

-----------------------------------------------------------------------------
(* write_mesh (vispy/util/dataio/io.py) *)

\* WavefrontWriter.write(fname, ...): the file is created with the mesh
WavefrontWriter_write(files, fname, mesh) ==
    [files EXCEPT ![fname] = Written(mesh)]

\* write_mesh on the files `files`: what becomes of them and how the call
\* ends.  The file check, with its os.remove, comes before the format check.
write_mesh_run(files, fname, mesh, format, overwrite) ==
    IF files[fname] # NoFile /\ ~overwrite
    THEN [fs |-> files, out |-> "IOError"]
    ELSE LET files1 == IF files[fname] # NoFile
                       THEN [files EXCEPT ![fname] = NoFile] ELSE files
         IN  IF format \notin {"obj"}
             THEN [fs |-> files1, out |-> "ValueError"]
             ELSE [fs |-> WavefrontWriter_write(files1, fname, mesh), out |-> "ok"]

\* write_mesh(fname, vertices, faces, normals, texcoords, format=, overwrite=)
write_mesh(fname, mesh, format, overwrite) ==
    /\ Running
    /\ LET r == write_mesh_run(fs, fname, mesh, format, overwrite)
       IN  /\ fs' = r.fs
           /\ op' = [name |-> "write_mesh", self |-> fname,
                     arg |-> [mesh |-> mesh, format |-> format,
                              overwrite |-> overwrite],
                     out |-> r.out]
    /\ fired' = NoFire
    /\ ret' = NoRet
    /\ calls' = calls + 1
    /\ UNCHANGED <<heap, combine>>

-----------------------------------------------------------------------------
(* The program: chains are constructed, then mutated and queried *)

Next ==
    \/ \E c \in Receivers, tr \in Args : append(c, tr)
    \/ \E c \in Receivers, tr \in Args : prepend(c, tr)
    \/ \E c \in Receivers, tr \in ListArgs : transforms_setter(c, tr)
    \/ \E c \in Receivers : transforms_setter_not_list(c)
    \/ \E c \in Receivers, index \in Indices, tr \in Args : __setitem__(c, index, tr)
    \/ \E t \in AffineLeaves \cap Args, v \in ParamVals : set_param(t, v)
    \/ \E c \in Receivers : flat(c)
    \/ \E c \in Receivers : simplified(c)

Spec == Init /\ [][Next]_vars

-----------------------------------------------------------------------------
(* The queries as functions of their input: c3, c2 and c1 are constructed  *)
(* in this order, each from leaves and the chains constructed before it,   *)
(* with any parameters; then c1 is queried once.                           *)

InitFn ==
    \E s3 \in SeqsUpTo(Leaves, 2), s2 \in SeqsUpTo(Leaves \cup {"c3"}, 2),
       s1 \in SeqsUpTo(Obj \ {"c1"}, MaxArgs), p \in [AffineLeaves -> ParamVals] :
        /\ "c2" \notin Range(s1) => s2 = <<>>
        /\ "c3" \notin Range(s1) \cup Range(s2) => s3 = <<>>
        /\ Constructed([c \in Chains |-> CASE c = "c1" -> s1 [] c = "c2" -> s2
                                           [] OTHER -> s3],
                       p, MaxCalls - 1)
        /\ combine = NoCombine
        /\ fs = NoFiles

NextFn ==
    \/ map_call("c1", CoordArray)
    \/ \E coords \in {CoordArray, [x \in Coords |-> map("c1", x)]} : imap_call("c1", coords)
    \/ flat("c1")
    \/ simplified("c1")

SpecFn == InitFn /\ [][NextFn]_vars

\* c2 is constructed from leaves of the classes X and Y, c1 from such
\* leaves and c2, with MaxFlat leaves at most below c1; the products of the
\* two classes are any of the possible ones; then c1 is simplified
InitMerge ==
    \E s2 \in SeqsUpTo(KindLeaves, 2),
       s1 \in SeqsUpTo(KindLeaves \cup {"c2"}, MaxFlat), t \in CombineTables :
        /\ "c2" \notin Range(s1) => s2 = <<>>
        /\ Constructed([c \in Chains |-> CASE c = "c1" -> s1 [] c = "c2" -> s2
                                           [] OTHER -> <<>>],
                       [l \in AffineLeaves |-> DefaultParam], MaxCalls - 1)
        /\ Len(LeavesOf("c1")) <= MaxFlat
        /\ combine = t
        /\ fs = NoFiles

NextMerge == simplified("c1")

SpecMerge == InitMerge /\ [][NextMerge]_vars

\* meshes are written to files that exist or not
InitIO ==
    \E files \in [Fnames -> FileContents] :
        /\ Constructed([c \in Chains |-> <<>>],
                       [l \in AffineLeaves |-> DefaultParam], 0)
        /\ combine = NoCombine
        /\ fs = files

NextIO ==
    \E fname \in Fnames, mesh \in Meshes, format \in Formats, overwrite \in BOOLEAN :
        write_mesh(fname, mesh, format, overwrite)

SpecIO == InitIO /\ [][NextIO]_vars

\* the same chains, one flag of c1 read
NextFlags == \E f \in Flags : read_flag("c1", f)

SpecFlags == InitFn /\ [][NextFlags]_vars

\* c3, c2 and c1 constructed in the same way from leaves with their default
\* parameters; then c1 is multiplied by a transform from the left or right
InitMul ==
    \E s3 \in SeqsUpTo(Leaves, 2), s2 \in SeqsUpTo(Leaves \cup {"c3"}, 2),
       s1 \in SeqsUpTo(Obj \ {"c1"}, MaxArgs) :
        /\ "c2" \notin Range(s1) => s2 = <<>>
        /\ "c3" \notin Range(s1) \cup Range(s2) => s3 = <<>>
        /\ Constructed([c \in Chains |-> CASE c = "c1" -> s1 [] c = "c2" -> s2
                                           [] OTHER -> s3],
                       [l \in AffineLeaves |-> DefaultParam], MaxCalls - 1)
        /\ combine = NoCombine
        /\ fs = NoFiles

NextMul ==
    \/ \E tr \in Obj : __mul__("c1", tr)
    \/ \E tr \in Obj : __rmul__("c1", tr)

SpecMul == InitMul /\ [][NextMul]_vars

-----------------------------------------------------------------------------
(* Properties *)

Subscribed(c) == {t \in Obj : c \in connected[t]}

Mutations == {"append", "prepend", "transforms_setter", "__setitem__"}

\* the last call was a mutation of c that was not rejected for its argument
Mutated(c) ==
    /\ op.name \in Mutations
    /\ op.self = c
    /\ op.out \notin {"TypeError", "IndexError"}

ShadersMatch(c) ==
    LET trs == transforms(c)
        n == Len(trs)
    IN  /\ Len(_shader_map[c]) = n
        /\ Len(_shader_imap[c]) = n
        /\ \A i \in 1..n : /\ _shader_map[c][i] = <<"shader_map", trs[n + 1 - i]>>
                           /\ _shader_imap[c][i] = <<"shader_imap", trs[i]>>

\* C1: after construction and after every mutation of a chain, the
\* transforms the chain's handler is connected to are exactly the chain's
\* current children.
C1_SubscribedToExactlyChildren ==
    \A c \in Chains :
        (op.name = "__init__" \/ Mutated(c)) =>
            Subscribed(c) = Range(transforms(c))

\* C2: after construction and after every structural mutation, whether the
\* call returned or raised, the forward shader chain holds the children's
\* shader_map fragments in reverse child order and the inverse shader chain
\* the children's shader_imap fragments in child order.
C2_ShaderChainsNeverStale ==
    \A c \in Chains :
        (op.name = "__init__" \/ Mutated(c)) => ShadersMatch(c)

\* C3: when a leaf's own parameters change, every chain that has the leaf
\* among its children fires its own change notification exactly once.
C3_ChildChangeFiresChainOnce ==
    op.name = "set_param" =>
        \A c \in Chains : op.self \in Range(transforms(c)) => fired[c] = 1

\* the child sequence is the one the call asked for
SequenceUpdated(c) ==
    LET trs == transforms(c)
    IN  CASE op.name = "append" -> Len(trs) > 0 /\ trs[Len(trs)] = op.arg
          [] op.name = "prepend" -> Len(trs) > 0 /\ trs[1] = op.arg
          [] op.name = "transforms_setter" ->
                 IF op.arg.alias = "new" THEN trs = op.arg.elems
                 ELSE _transforms[c] = op.arg.alias
          [] OTHER -> TRUE

\* C4: append, prepend and replacement of the whole list fire the chain's
\* change notification exactly once, and when it is delivered the child
\* sequence, the subscriptions and both shader chains are those of the
\* resulting sequence.
C4_OneNotificationAfterFullUpdate ==
    \A c \in Chains :
        (Mutated(c) /\ op.name # "__setitem__") =>
            /\ op.out = "ok"
            /\ fired[c] = 1
            /\ SequenceUpdated(c)
            /\ Subscribed(c) = Range(transforms(c))
            /\ ShadersMatch(c)

\* C5: chain[i] = T with i inside the bounds completes without error; on
\* return element i is T, the chain is subscribed to its children (to T,
\* and no longer to the replaced child unless it is still a child), both
\* shader chains are rebuilt and the chain's notification has fired.
C5_SetItemCompletes ==
    \A c \in Chains :
        (op.name = "__setitem__" /\ op.self = c
         /\ InRange(op.arg[1], Len(transforms(c)))) =>
            /\ op.out = "ok"
            /\ transforms(c)[Position(op.arg[1], Len(transforms(c)))] = op.arg[2]
            /\ Subscribed(c) = Range(transforms(c))
            /\ ShadersMatch(c)
            /\ fired[c] = 1

\* T1.map(T2.map(... Tn.map(x))) for children <<T1, ..., Tn>>
RECURSIVE NestedApplication(_, _)
NestedApplication(trs, x) ==
    IF trs = <<>> THEN x
    ELSE map(Head(trs), NestedApplication(Tail(trs), x))

\* C6: chain.map(x) is T1.map(T2.map(... Tn.map(x))) for the child sequence
\* <<T1, ..., Tn>>, the last child applied first, and x for no children.
C6_MapAppliesLastChildFirst ==
    op.name = "map" =>
        \A i \in DOMAIN op.arg :
            ret.val[i] = NestedApplication(transforms(op.self), op.arg[i])

\* a call of map on children whose order matters
C6_Witness ==
    /\ op.name = "map"
    /\ Len(transforms(op.self)) >= 2
    /\ \E i \in DOMAIN op.arg :
           ret.val[i] # map_loop(transforms(op.self), op.arg[i])

Invertible(t) == \A x \in Coords : imap(t, map(t, x)) = x

\* C7: when every child is invertible, imap of the chain undoes map of the
\* chain, nested chains included.
C7_ImapInvertsMap ==
    (/\ op.name = "imap"
     /\ op.arg = [x \in Coords |-> map(op.self, x)]
     /\ \A t \in Range(transforms(op.self)) : Invertible(t)) =>
        ret.val = CoordArray

\* imap undoing map on a chain with a nested chain, where undoing the
\* children in the order of map would not give the input back
C7_Witness ==
    /\ op.name = "imap"
    /\ op.arg = [x \in Coords |-> map(op.self, x)]
    /\ op.arg # CoordArray
    /\ \A t \in Range(transforms(op.self)) : Invertible(t)
    /\ ChildChains(op.self) # {}
    /\ \E x \in Coords : imap_loop(Reverse(transforms(op.self)), op.arg[x]) # x

\* C8: flat() returns a new ChainTransform whose children are the leaves of
\* the receiver, depth first and left to right, none of them a chain; for a
\* receiver without nested chains they are the receiver's children.
C8_FlatIsLeafSequence ==
    (op.name = "flat" /\ op.out = "ok") =>
        /\ ret.cls = "ChainTransform"
        /\ ret.src = "new"
        /\ ret.transforms = LeavesOf(op.self)
        /\ Range(ret.transforms) \cap Chains = {}
        /\ (ChildChains(op.self) = {} => ret.transforms = transforms(op.self))

\* flat() of a chain holding a chain that holds a chain
C8_Witness ==
    /\ op.name = "flat"
    /\ op.out = "ok"
    /\ \E d \in ChildChains(op.self) :
           /\ ChildChains(d) # {}
           /\ \E e \in ChildChains(d) : Len(transforms(e)) = 2
    /\ Len(transforms(op.self)) >= 2
    /\ transforms(op.self)[1] \in Chains
    /\ Len(ret.transforms) >= 4

\* C9: flat() and simplified() leave every list, every subscription, both
\* shader chains of every chain and every parameter as they were, and fire
\* no change notification.
C9_QueriesDoNotMutate ==
    [][op'.name \in {"flat", "simplified"} =>
           /\ lists' = lists
           /\ _transforms' = _transforms
           /\ connected' = connected
           /\ _shader_map' = _shader_map
           /\ _shader_imap' = _shader_imap
           /\ param' = param
           /\ fired' = NoFire]_vars

\* simplified() has returned for a receiver that has a nested chain and
\* subscriptions
C9_Witness ==
    /\ op.name = "simplified"
    /\ op.out = "ok"
    /\ ChildChains(op.self) # {}
    /\ Subscribed(op.self) # {}
    /\ \E d \in ChildChains(op.self) : Len(transforms(d)) >= 1

\* what a transform returned by simplified() maps x to
RECURSIVE items_map_loop(_, _)
items_map_loop(trs, coords) ==
    IF trs = <<>> THEN coords
    ELSE items_map_loop(Tail(trs), item_map(Head(trs), coords))

ret_map(r, x) ==
    IF r.cls = "ChainTransform" THEN items_map_loop(Reverse(r.transforms), x)
    ELSE item_map(r, x)

\* C10: the transform simplified() returns maps every x to what the
\* receiver maps it to, for nested and empty receivers too.
C10_SimplifiedPreservesMap ==
    (op.name = "simplified" /\ op.out = "ok") =>
        \A x \in Coords : ret_map(ret, x) = map(op.self, x)

\* simplified() merged some neighbours of a nested receiver and kept others,
\* and the merged transforms do not commute
C10_Witness ==
    /\ op.name = "simplified"
    /\ op.out = "ok"
    /\ ChildChains(op.self) # {}
    /\ ret.cls = "ChainTransform"
    /\ Len(ret.transforms) < Len(LeavesOf(op.self))
    /\ \E i \in 1..Len(ret.transforms) :
           /\ ret.transforms[i].src = "new"
           /\ ret.transforms[i].scale = 0
           /\ ret.transforms[i].translate = 3

\* C11: simplified() returns the null transform for a receiver without
\* leaves, the one remaining transform itself when one is left, and else a
\* ChainTransform of two or more transforms none of which is a chain; it
\* never returns a chain of length 0 or 1.
C11_SimplifiedResultShape ==
    (op.name = "simplified" /\ op.out = "ok") =>
        LET fl == LeavesOf(op.self)
        IN  /\ fl = <<>> => ret = NullTransform
            /\ Len(fl) = 1 => ret = Item(fl[1])
            /\ fl # <<>> => ret.cls # "null"
            /\ ret.cls = "ChainTransform" =>
                   /\ Len(ret.transforms) >= 2
                   /\ \A i \in 1..Len(ret.transforms) :
                          /\ ret.transforms[i].cls # "ChainTransform"
                          /\ ret.transforms[i].src \notin Chains

\* simplified() of a nested receiver with several leaves merged them all
\* into one transform and returned it unwrapped
C11_Witness ==
    /\ op.name = "simplified"
    /\ op.out = "ok"
    /\ ChildChains(op.self) # {}
    /\ Len(LeavesOf(op.self)) >= 3
    /\ ret.cls = "affine"
    /\ ret.src = "new"

\* C12: a rejected mutation leaves the chain as it was: the setter given
\* something that is not a list raises TypeError, a positional replace
\* with an index outside the bounds raises IndexError, and in both cases
\* the child sequences, the subscriptions and both shader chains are
\* unchanged and no change notification fires.
C12_RejectedMutationChangesNothing ==
    [][/\ (op'.name = "transforms_setter" /\ op'.arg = NotAList) =>
              op'.out = "TypeError"
       /\ (op'.name = "__setitem__"
           /\ ~InRange(op'.arg[1], Len(transforms(op'.self)))) =>
              op'.out = "IndexError"
       /\ op'.out \in {"TypeError", "IndexError"} =>
              /\ \A c \in Chains :
                     /\ lists'[_transforms'[c]] = lists[_transforms[c]]
                     /\ _shader_map'[c] = _shader_map[c]
                     /\ _shader_imap'[c] = _shader_imap[c]
              /\ connected' = connected
              /\ fired' = NoFire]_vars

\* a mutation of a chain with children and subscriptions was rejected
C12_Witness ==
    /\ op.out \in {"TypeError", "IndexError"}
    /\ Len(transforms(op.self)) >= 1
    /\ Subscribed(op.self) # {}
    /\ ShadersMatch(op.self)

\* C13: each of the four flags read from a chain is the conjunction of
\* that flag over the chain's children as they are at the read (a nested
\* chain's flag being its own conjunction, a leaf's flag following its
\* current parameters); all four are true for a chain without children.
C13_FlagIsConjunctionOverChildren ==
    op.name = "read_flag" =>
        /\ ret.val = (\A t \in Range(transforms(op.self)) : flag(t, op.arg))
        /\ transforms(op.self) = <<>> => ret.val = TRUE

\* a flag read as false from a chain whose last child has it and whose
\* nested chain, through a leaf with changed parameters, does not
C13_Witness ==
    /\ op.name = "read_flag"
    /\ ret.val = FALSE
    /\ Len(transforms(op.self)) = 2
    /\ transforms(op.self)[1] \in Chains
    /\ flag(transforms(op.self)[2], op.arg)
    /\ \E t \in AffineLeaves \cap Range(transforms(transforms(op.self)[1])) :
           param[t] # DefaultParam /\ ~flag(t, op.arg)

\* the sequence an operand of * stands for: a chain's children, or the
\* transform alone
OperandSeq(t) == IF t \in Chains THEN transforms(t) ELSE <<t>>

\* C14: self * B returns a new chain of self's children followed by B's (or
\* by B when B is not a chain), B * self a new chain of B's children (or B)
\* followed by self's; nothing is merged, the length is the sum of the
\* operands' lengths, and no list of either operand changes.
C14_MulConcatenatesWithoutMutating ==
    [][op'.name \in {"__mul__", "__rmul__"} =>
           /\ ret'.cls = "ChainTransform"
           /\ ret'.src = "new"
           /\ op'.name = "__mul__" =>
                  ret'.transforms = transforms(op'.self) \o OperandSeq(op'.arg)
           /\ op'.name = "__rmul__" =>
                  ret'.transforms = OperandSeq(op'.arg) \o transforms(op'.self)
           /\ Len(ret'.transforms) =
                  Len(transforms(op'.self)) + Len(OperandSeq(op'.arg))
           /\ lists' = lists
           /\ _transforms' = _transforms]_vars

\* a chain of one child times a chain of two affine leaves: three children,
\* the two affine ones side by side and not merged
C14_Witness ==
    /\ op.name = "__mul__"
    /\ op.arg \in Chains
    /\ op.arg # op.self
    /\ Len(transforms(op.self)) = 1
    /\ Len(transforms(op.arg)) = 2
    /\ Range(transforms(op.arg)) \subseteq AffineLeaves
    /\ Len(ret.transforms) = 3
    /\ ret.transforms[1] = transforms(op.self)[1]

\* C15: after any constructions and mutations no chain is a child of
\* itself, directly or through other chains, so the delivery of a change
\* notification and flat() always come to an end.
C15_NoChainContainsItself ==
    /\ \A c \in Chains : c \notin Nested(c)
    /\ op.out \notin {"hang", "RecursionError"}

\* the transforms simplified() has returned, as a sequence
ResultSeq(r) ==
    IF r.cls = "ChainTransform" THEN r.transforms
    ELSE IF r.cls = "null" THEN <<>> ELSE <<r>>

\* C16: when simplified() returns a ChainTransform, no two neighbours of
\* the returned sequence have a product that is not a ChainTransform, also
\* when a merge made a new pair of neighbours that merges in turn.
C16_SimplifiedIsMergeFixedPoint ==
    (op.name = "simplified" /\ op.out = "ok" /\ ret.cls = "ChainTransform") =>
        \A i \in 1..(Len(ret.transforms) - 1) :
            mul(ret.transforms[i], ret.transforms[i + 1]).cls = "ChainTransform"

\* a chain of four leaves: a merge of the first pass made a pair that
\* merged in the second, and two transforms that do not merge are left
C16_Witness ==
    /\ op.name = "simplified"
    /\ op.out = "ok"
    /\ Len(transforms(op.self)) = 4
    /\ op.passes = 3
    /\ ret.cls = "ChainTransform"
    /\ Len(ret.transforms) = 2
    /\ mul(Item(transforms(op.self)[1]), Item(transforms(op.self)[2])).cls
           = "ChainTransform"

\* C17: simplified() returns for every chain without cycles, whatever the
\* products of its transforms are: its loop makes at most as many passes as
\* there are flattened transforms, every pass but the last one shortening
\* the sequence.
C17_SimplifiedTerminates ==
    op.name = "simplified" =>
        LET n == Len(LeavesOf(op.self))
        IN  /\ op.out = "ok"
            /\ op.passes <= n
            /\ n >= 1 => /\ op.passes >= 1
                         /\ Len(ResultSeq(ret)) <= n - (op.passes - 1)

\* simplified() of three leaves needed three passes
C17_Witness ==
    /\ op.name = "simplified"
    /\ op.out = "ok"
    /\ Len(transforms(op.self)) = 3
    /\ op.passes = 3
    /\ Len(ResultSeq(ret)) = 1

\* merge the leftmost pair that merges and start again from the left, until
\* no pair merges
RECURSIVE restart_scan(_, _)
restart_scan(tr, i) ==
    IF i >= Len(tr) THEN tr
    ELSE LET pr == mul(tr[i], tr[i + 1])
         IN  IF pr.cls # "ChainTransform"
             THEN restart_scan(SubSeq(tr, 1, i - 1) \o <<pr>>
                                   \o SubSeq(tr, i + 2, Len(tr)), 1)
             ELSE restart_scan(tr, i + 1)

\* C18: the sequence simplified() returns is the one obtained by replacing
\* the leftmost pair that merges by its product and starting the scan again
\* from the left after every merge, for every flattened sequence and every
\* table of products.
C18_SimplifiedEqualsRestartFromLeft ==
    (op.name = "simplified" /\ op.out = "ok") =>
        ResultSeq(ret) = restart_scan(Items(LeavesOf(op.self)), 1)

\* C19: a structural mutation of one chain (append, prepend, positional
\* or wholesale replacement) changes no other chain's child sequence,
\* subscriptions or shader chains, also when the chains share children or
\* when one chain's sequence was set from the list read from the other's
\* transforms property.
C19_MutationLeavesOtherChainsAlone ==
    [][op'.name \in Mutations =>
           \A d \in Chains \ {op'.self} :
               /\ lists'[_transforms'[d]] = lists[_transforms[d]]
               /\ \A t \in Obj : (d \in connected'[t]) = (d \in connected[t])
               /\ _shader_map'[d] = _shader_map[d]
               /\ _shader_imap'[d] = _shader_imap[d]]_vars

\* C20: write_mesh leaves an existing file as it is whenever it raises:
\* IOError when the file exists and overwrite is false, ValueError when the
\* format is not 'obj', for either value of overwrite; a file is removed
\* only by a call that then writes the mesh.
C20_WriteMeshRaisesWithoutRemoving ==
    [][op'.name = "write_mesh" =>
           LET fname == op'.self
               exists == fs[fname] # NoFile
           IN  /\ (exists /\ ~op'.arg.overwrite) => op'.out = "IOError"
               /\ (op'.arg.format # "obj" /\ (~exists \/ op'.arg.overwrite)) =>
                      op'.out = "ValueError"
               /\ op'.out \in {"IOError", "ValueError"} => fs' = fs
               /\ fs' # fs => (op'.out = "ok" /\ fs'[fname] = Written(op'.arg.mesh))]_vars

====
